---- MODULE Spec2Model ----
(***************************************************************************)
(* BrewBalance: the event-sourced ledger.                                  *)
(*                                                                         *)
(* The persisted transaction log (utils/transactionStore.ts), the replay   *)
(* engine and the materializer (utils/replayEngine.ts), the transaction    *)
(* constructors and the two migrations (src/utils/migration.ts).           *)
(*                                                                         *)
(* Time.  A timestamp is a number of ticks since the epoch; a calendar     *)
(* date is a day number.  TicksPerDay ticks make one day, so tick          *)
(* d * TicksPerDay is midnight of day d, which is what the code's          *)
(* `new Date(date).getTime()` yields for a date-only string (UTC), and a   *)
(* tick t falls on day t \div TicksPerDay (formatDateISO, UTC).            *)
(*                                                                         *)
(* The store handed to the operations is the default store (the tests      *)
(* install the same in-memory store as default), and no mock time is set,  *)
(* so now() of the clock module is Date.now().                             *)
(***************************************************************************)
EXTENDS Integers, Sequences, FiniteSets, TLC

\* ------------------------------------------------------------------ bounds
\* Last instant the clock reaches.
MaxTime == 3
\* Most user events (entries, settings edits, rollover adjustments) the
\* persisted log holds before user appends stop.
MaxLog == 2
\* Last instant at which a legacy store is migrated, in the specification of
\* the migration alone: three calendar days.
MaxMigrationTime == 4

\* Instants told apart within one calendar day (the code's day has
\* 24 * 60 * 60 * 1000 of them): midnight and at least one later instant.
TicksPerDay == 2

\* -------------------------------------------------------------- vocabulary
\* No date: an omitted throughDate, an unset startDate.
NoDate == 0 - 1000
\* An optional list argument (transactions?: Transaction[]): given or omitted.
Given(txs) == [given |-> TRUE, list |-> txs]
Omitted == [given |-> FALSE, list |-> <<>>]
\* transactions && transactions.length
NonEmpty(transactions) == transactions.given /\ transactions.list # <<>>

Times == 0..MaxTime
\* Calendar dates: every day the clock reaches.
LastDay == MaxTime \div TicksPerDay
Days == 0..LastDay

\* utils/dateUtils: formatDateISO(new Date(t)), the calendar date of an instant.
formatDateISO(t) == t \div TicksPerDay
\* new Date(date).getTime(): midnight that starts the date.
DateToTime(date) == date * TicksPerDay
\* utils/dateUtils: addDays
addDays(date, n) == date + n

EmptyMap == [k \in {} |-> 0]

\* Spread with the operands in the other order, { ...b, ...a }.
Spread_KeepsOld(a, b) ==
  [k \in (DOMAIN a) \cup (DOMAIN b) |-> IF k \in DOMAIN a THEN a[k] ELSE b[k]]

\* Shallow object spread { ...a, ...b }.
Spread(a, b) ==
  [k \in (DOMAIN a) \cup (DOMAIN b) |-> IF k \in DOMAIN b THEN b[k] ELSE a[k]]

\* constants.ts: the settings every replay starts from.  No start date is
\* set until the user saves one.
DEFAULT_SETTINGS == [weekdayBudget |-> 0, startDate |-> NoDate]

NoEntry == [id |-> 0, date |-> NoDate, amount |-> 0, timestamp |-> 0]

\* ------------------------------------------------------------ transactions
\* One record shape for the tagged union Transaction; the fields a kind does
\* not carry hold the neutral values below.  An id is <<prefix, n, m>>.
Tx(id, type, timestamp) ==
  [id |-> id, type |-> type, timestamp |-> timestamp, date |-> NoDate,
   baseBudget |-> 0, rollover |-> 0, settingsPatch |-> EmptyMap,
   entry |-> NoEntry]

\* crypto.randomUUID(): a value no id of the log carries yet.
RECURSIVE FreshFrom(_, _)
FreshFrom(used, n) == IF n \in used THEN FreshFrom(used, n + 1) ELSE n
randomUUID(txs) ==
  FreshFrom({txs[i].id[2] : i \in {j \in 1..Len(txs) : txs[j].id[1] = "tx-settings"}}
            \cup {txs[i].id[3] : i \in {j \in 1..Len(txs) : txs[j].id[1] = "tx-roll"}}, 1)

makeEntryAddedTx(entry) ==
  [Tx(<<"tx", entry.id, 0>>, "ENTRY_ADDED", entry.timestamp) EXCEPT !.entry = entry]

makeSettingsUpdatedTx(settings, uuid, now) ==
  [Tx(<<"tx-settings", uuid, 0>>, "SETTINGS_UPDATED", now)
     EXCEPT !.settingsPatch = settings]

\* makeSettingsUpdatedTx of utils/transactionHelpers.ts: the id is
\* `tx-settings-${now()}`, derived from the clock instead of a random UUID.
makeSettingsUpdatedTxAt(settings, now) ==
  [Tx(<<"tx-settings-at", now, 0>>, "SETTINGS_UPDATED", now)
     EXCEPT !.settingsPatch = settings]

makeDailyBudgetCreatedTx(date, baseBudget, rollover, now) ==
  [Tx(<<"tx-daily", date, 0>>, "DAILY_BUDGET_CREATED", now)
     EXCEPT !.date = date, !.baseBudget = baseBudget, !.rollover = rollover]

makeCustomRolloverTx(date, rollover, uuid, now) ==
  [Tx(<<"tx-roll", date, uuid>>, "CUSTOM_ROLLOVER_SET", now)
     EXCEPT !.date = date, !.rollover = rollover]

\* ------------------------------------------------------- transaction store
\* txs.sort((a, b) => a.timestamp - b.timestamp): Array.prototype.sort is
\* stable, so equal timestamps keep their relative order.
\* SortInsert that puts a transaction before the ones of its timestamp.
SortInsert_BeforeEqual(sorted, tx) ==
  LET keep == {i \in 1..Len(sorted) : sorted[i].timestamp < tx.timestamp}
      k == Cardinality(keep)
  IN SubSeq(sorted, 1, k) \o <<tx>> \o SubSeq(sorted, k + 1, Len(sorted))

SortInsert(sorted, tx) ==
  LET keep == {i \in 1..Len(sorted) : sorted[i].timestamp <= tx.timestamp}
      k == Cardinality(keep)
  IN SubSeq(sorted, 1, k) \o <<tx>> \o SubSeq(sorted, k + 1, Len(sorted))

\* txs.sort left out: the list is folded as handed in.
SortByTimestamp_None(txs) == txs

RECURSIVE SortByTimestamp(_)
SortByTimestamp(txs) ==
  IF txs = <<>> THEN <<>>
  ELSE SortInsert(SortByTimestamp(SubSeq(txs, 1, Len(txs) - 1)), txs[Len(txs)])

Ids(txs) == {txs[i].id : i \in 1..Len(txs)}

\* What getItem(STORAGE_KEYS.TRANSACTIONS) can return: null (absent), the
\* empty string, text JSON.parse rejects, the text "null", the text of an
\* object such as "{}", or the text of an event list.
RawText(kind, list) == [kind |-> kind, list |-> list]
RawValues(txs) ==
  {RawText(k, <<>>) : k \in {"absent", "empty", "unparseable", "null", "object"}}
    \cup {RawText("list", txs)}

\* parseJSON: the fallback for a falsy string or a parse error, otherwise
\* whatever JSON.parse returns, cast to T without a check.
parseJSON(raw, fallback) ==
  CASE raw.kind \in {"absent", "empty"} -> RawText("list", fallback)
    [] raw.kind = "unparseable" -> RawText("list", fallback)
    [] OTHER -> raw

\* loadTransactions over the raw text: parseJSON(raw, []).
loadRaw(raw) == parseJSON(raw, <<>>)

\* Whether the callers complete on the loaded value: isMigrated reads
\* txs.length (a TypeError on null), appendTransaction calls txs.some and
\* replay calls txs.sort (a TypeError on anything but an array).
isMigratedCompletes(raw) == loadRaw(raw).kind # "null"
appendTransactionCompletes(raw) == loadRaw(raw).kind = "list"
replayCompletes(raw) == loadRaw(raw).kind = "list"

\* loadTransactions: the parsed list under STORAGE_KEYS.TRANSACTIONS.
loadTransactions(s) == s.TRANSACTIONS

\* A DataStore whose setItem throws (quota exceeded, storage disabled).
Rejecting(s) == [TRANSACTIONS |-> s.TRANSACTIONS, rejectsWrites |-> TRUE]
RejectsWrites(s) == "rejectsWrites" \in DOMAIN s

\* saveTransactions that stores the list although setItem threw.
saveTransactions_WritesAnyway(txs, s) == [s EXCEPT !.TRANSACTIONS = txs]

\* saveTransactions: overwrite the stored list; an error thrown by setItem
\* is caught and logged, and the stored list stays as it was.
saveTransactions(txs, s) ==
  IF RejectsWrites(s) THEN s ELSE [s EXCEPT !.TRANSACTIONS = txs]

\* appendTransaction without the duplicate-id check.
appendTransaction_NoDedup(tx, s) ==
  saveTransactions(SortByTimestamp(Append(loadTransactions(s), tx)), s)

\* appendTransaction that overwrites the stored transaction of the same id.
appendTransaction_Replace(tx, s) ==
  LET txs == loadTransactions(s)
      others == SelectSeq(txs, LAMBDA t : t.id # tx.id)
  IN saveTransactions(SortByTimestamp(Append(others, tx)), s)

\* appendTransaction: load, skip a known id, push, sort, save.
appendTransaction(tx, s) ==
  LET txs == loadTransactions(s)
  IN IF tx.id \in Ids(txs) THEN s
     ELSE saveTransactions(SortByTimestamp(Append(txs, tx)), s)

\* clearTransactions that leaves the settings transactions in place.
clearTransactions_KeepsSettings(s) ==
  [s EXCEPT !.TRANSACTIONS = SelectSeq(@, LAMBDA t : t.type = "SETTINGS_UPDATED")]

\* clearTransactions: remove the key.
clearTransactions(s) == [s EXCEPT !.TRANSACTIONS = <<>>]

\* ------------------------------------------------------------ replay engine
KnownTypes == {"SETTINGS_UPDATED", "ENTRY_ADDED", "DAILY_BUDGET_CREATED",
               "CUSTOM_ROLLOVER_SET", "CHALLENGE_CREATED", "CHALLENGE_ARCHIVED"}

\* existing taken as zero also when the date has a budget.
BudgetOrZero_AlwaysZero(dailyBudgets, date) == [baseBudget |-> 0, rollover |-> 0]

\* const existing = dailyBudgets[date] || { baseBudget: 0, rollover: 0 }
BudgetOrZero(dailyBudgets, date) ==
  IF date \in DOMAIN dailyBudgets THEN dailyBudgets[date]
  ELSE [baseBudget |-> 0, rollover |-> 0]

\* The switch of replay's loop: one transaction folded into the running state.
ApplyTx(acc, tx) ==
  CASE tx.type = "SETTINGS_UPDATED" ->
         [acc EXCEPT !.settings = Spread(acc.settings, tx.settingsPatch)]
    [] tx.type = "ENTRY_ADDED" ->
         [acc EXCEPT !.entries = Append(acc.entries, tx.entry)]
    [] tx.type = "DAILY_BUDGET_CREATED" ->
         [acc EXCEPT !.dailyBudgets =
            Spread(acc.dailyBudgets,
                   [d \in {tx.date} |->
                      [baseBudget |-> tx.baseBudget, rollover |-> tx.rollover]])]
    [] tx.type = "CUSTOM_ROLLOVER_SET" ->
         [acc EXCEPT !.dailyBudgets =
            Spread(acc.dailyBudgets,
                   [d \in {tx.date} |->
                      [BudgetOrZero(acc.dailyBudgets, tx.date)
                         EXCEPT !.rollover = tx.rollover]])]
    [] OTHER -> acc

\* The for loop of replay: stops (break) at the first transaction stamped
\* after midnight of throughDate; a transaction of no known kind ends the
\* function, which then returns that transaction.
\* The loop without the break: every transaction is folded.
RECURSIVE ReplayLoop_NoCutoff(_, _, _, _)
ReplayLoop_NoCutoff(txs, i, throughDate, acc) ==
  IF i > Len(txs) THEN acc
  ELSE IF txs[i].type \notin KnownTypes THEN txs[i]
  ELSE ReplayLoop_NoCutoff(txs, i + 1, throughDate, ApplyTx(acc, txs[i]))

RECURSIVE ReplayLoop(_, _, _, _)
ReplayLoop(txs, i, throughDate, acc) ==
  IF i > Len(txs) THEN acc
  ELSE IF throughDate # NoDate /\ txs[i].timestamp > DateToTime(throughDate) THEN acc
  ELSE IF txs[i].type \notin KnownTypes THEN txs[i]
  ELSE ReplayLoop(txs, i + 1, throughDate, ApplyTx(acc, txs[i]))

\* replay(transactions?, throughDate?, store?).  An omitted list and an empty
\* list both read the store.
replay(transactions, throughDate, s) ==
  LET txs == SortByTimestamp(IF NonEmpty(transactions) THEN transactions.list
                             ELSE loadTransactions(s))
  IN ReplayLoop(txs, 1, throughDate,
                [settings |-> DEFAULT_SETTINGS, entries |-> <<>>,
                 dailyBudgets |-> EmptyMap, transactions |-> txs])

\* ------------------------------------------------------- stats calculator
\* utils/financeHelpers.calculateStats(settings, entries, targetDate?): the
\* figures of every date from settings.startDate through targetDate.  A day's
\* base budget is the budget amount of the settings, its rollover what the
\* day before left over; the first day opens with no rollover.  Weekdays and
\* weekends carry the same amount here.
RECURSIVE Spent(_, _)
Spent(entries, date) ==
  IF entries = <<>> THEN 0
  ELSE (IF Head(entries).date = date THEN Head(entries).amount ELSE 0)
       + Spent(Tail(entries), date)

RECURSIVE RolloverInto(_, _, _)
RolloverInto(settings, entries, date) ==
  IF date <= settings.startDate THEN 0
  ELSE settings.weekdayBudget
       + RolloverInto(settings, entries, date - 1)
       - Spent(entries, date - 1)

calculateStats(settings, entries, targetDate) ==
  IF settings.startDate = NoDate THEN EmptyMap
  ELSE [d \in settings.startDate..(IF targetDate = NoDate THEN LastDay ELSE targetDate) |->
          [baseBudget |-> settings.weekdayBudget,
           rollover |-> RolloverInto(settings, entries, d)]]

\* ------------------------------------------------------------ materializer
\* DailyBudgetTx with an id that also carries the instant.
DailyBudgetTx_IdFromNow(date, budget, now) ==
  [Tx(<<"tx-daily", date, now>>, "DAILY_BUDGET_CREATED", now)
     EXCEPT !.date = date, !.baseBudget = budget.baseBudget,
            !.rollover = budget.rollover]

\* The transaction ensureDailyBudgetForDate builds: its id is derived from the
\* date alone, its timestamp is Date.now().
DailyBudgetTx(date, budget, now) ==
  [Tx(<<"tx-daily", date, 0>>, "DAILY_BUDGET_CREATED", now)
     EXCEPT !.date = date, !.baseBudget = budget.baseBudget,
            !.rollover = budget.rollover]

\* ensureDailyBudgetForDate whose zero fallback is returned but not appended.
ensureDailyBudgetForDate_FallbackNotStored(date, transactions, s, now) ==
  LET txs == IF NonEmpty(transactions) THEN transactions.list ELSE loadTransactions(s)
      r == replay(Given(txs), date, s)
      statsMap == calculateStats(r.settings, r.entries, date)
  IN IF date \in DOMAIN r.dailyBudgets
     THEN [budget |-> r.dailyBudgets[date], store |-> s]
     ELSE IF date \notin DOMAIN statsMap
     THEN [budget |-> [baseBudget |-> 0, rollover |-> 0], store |-> s]
     ELSE [budget |-> [baseBudget |-> statsMap[date].baseBudget,
                       rollover |-> statsMap[date].rollover],
           store |-> appendTransaction(
                       DailyBudgetTx(date, [baseBudget |-> statsMap[date].baseBudget,
                                            rollover |-> statsMap[date].rollover], now), s)]

\* ensureDailyBudgetForDate(date, transactions?): the value returned and the
\* store afterwards.
ensureDailyBudgetForDate(date, transactions, s, now) ==
  LET txs == IF NonEmpty(transactions) THEN transactions.list ELSE loadTransactions(s)
      r == replay(Given(txs), date, s)
      statsMap == calculateStats(r.settings, r.entries, date)
      budget == IF date \in DOMAIN statsMap
                THEN [baseBudget |-> statsMap[date].baseBudget,
                      rollover |-> statsMap[date].rollover]
                ELSE [baseBudget |-> 0, rollover |-> 0]
  IN IF date \in DOMAIN r.dailyBudgets
     THEN [budget |-> r.dailyBudgets[date], store |-> s]
     ELSE [budget |-> budget,
           store |-> appendTransaction(DailyBudgetTx(date, budget, now), s)]

\* ShouldMaterialize with today taken as a past date.
ShouldMaterialize_IncludesToday(cur, txs, s, now) ==
  /\ cur <= formatDateISO(now)
  /\ cur \notin DOMAIN replay(Given(txs), cur, s).dailyBudgets

\* Whether the loop of materializeUpTo materializes cur.
ShouldMaterialize(cur, txs, s, now) ==
  /\ cur < formatDateISO(now)
  /\ cur \notin DOMAIN replay(Given(txs), cur, s).dailyBudgets

\* The while loop of materializeUpTo; txs is the list loaded on entry.
RECURSIVE MaterializeLoop(_, _, _, _, _, _)
MaterializeLoop(cur, throughDate, txs, s, now, materialized) ==
  IF cur > throughDate THEN [materialized |-> materialized, store |-> s]
  ELSE IF ShouldMaterialize(cur, txs, s, now)
  THEN MaterializeLoop(addDays(cur, 1), throughDate, txs,
                       ensureDailyBudgetForDate(cur, Given(txs), s, now).store, now,
                       Append(materialized, cur))
  ELSE MaterializeLoop(addDays(cur, 1), throughDate, txs, s, now, materialized)

\* materializeUpTo(throughDate): the dates returned and the store afterwards.
materializeUpTo(throughDate, s, now) ==
  LET txs == loadTransactions(s)
      settings == replay(Given(txs), NoDate, s).settings
      start == IF settings.startDate # NoDate THEN settings.startDate
               ELSE formatDateISO(now)
  IN MaterializeLoop(start, throughDate, SortByTimestamp(txs), s, now, <<>>)

\* --------------------------------------------------------------- migration
\* The legacy value under STORAGE_KEYS.SETTINGS: absent, the JSON text of a
\* settings object, or text that JSON.parse rejects.
NoLegacySettings == [present |-> FALSE, parses |-> TRUE, value |-> EmptyMap]
LegacySettings(v) == [present |-> TRUE, parses |-> TRUE, value |-> v]
MalformedSettings == [present |-> TRUE, parses |-> FALSE, value |-> EmptyMap]

\* loadLegacySettings: the parsed settings, or null (NoLegacySettings) when
\* the key is absent or JSON.parse throws; the catch only logs.
loadLegacySettings(s) ==
  IF s.SETTINGS.present /\ s.SETTINGS.parses THEN s.SETTINGS ELSE NoLegacySettings

\* loadLegacyEntries: the parsed list, [] when the key is absent.
loadLegacyEntries(s) == s.ENTRIES

\* isMigrated that asks for more than the first event.
isMigrated_MoreThanOne(s) == Len(loadTransactions(s)) > 1

\* isMigrated: the log holds a transaction.
isMigrated(s) == Len(loadTransactions(s)) > 0

\* LegacyEntryTxs that puts each event before the ones already built.
RECURSIVE LegacyEntryTxs_Reversed(_)
LegacyEntryTxs_Reversed(sortedEntries) ==
  IF sortedEntries = <<>> THEN <<>>
  ELSE LegacyEntryTxs_Reversed(Tail(sortedEntries))
       \o <<[Tx(<<"tx-entry", Head(sortedEntries).id, 0>>, "ENTRY_ADDED",
                Head(sortedEntries).timestamp) EXCEPT !.entry = Head(sortedEntries)]>>

\* for (const entry of sortedEntries) transactions.push({ id: `tx-entry-${entry.id}`, ... })
RECURSIVE LegacyEntryTxs(_)
LegacyEntryTxs(sortedEntries) ==
  IF sortedEntries = <<>> THEN <<>>
  ELSE <<[Tx(<<"tx-entry", Head(sortedEntries).id, 0>>, "ENTRY_ADDED",
             Head(sortedEntries).timestamp) EXCEPT !.entry = Head(sortedEntries)]>>
       \o LegacyEntryTxs(Tail(sortedEntries))

\* migrateFromLegacyModel(store): the report returned and the store afterwards.
migrateFromLegacyModel(s, now) ==
  LET existing == loadTransactions(s)
      settingsTx == [Tx(<<"tx-settings-initial", 0, 0>>, "SETTINGS_UPDATED", 0)
                       EXCEPT !.settingsPatch = loadLegacySettings(s).value]
      sortedEntries == SortByTimestamp(loadLegacyEntries(s))
      transactions == <<settingsTx>> \o LegacyEntryTxs(sortedEntries)
      saved == saveTransactions(transactions, s)
      today == formatDateISO(now)
      yesterday == addDays(today, -1)
      m == materializeUpTo(yesterday, saved, now)
      replayResult == replay(Given(transactions), yesterday, m.store)
      budgetsCreated == Cardinality(DOMAIN replayResult.dailyBudgets)
  IN IF Len(existing) > 0
     THEN [report |-> [alreadyMigrated |-> TRUE, entriesCreated |-> 0,
                       budgetsCreated |-> 0, settingsCreated |-> 0,
                       totalTransactions |-> Len(existing),
                       materializedDates |-> <<>>,
                       warnings |-> <<"Migration already completed.">>],
           store |-> s]
     ELSE [report |-> [alreadyMigrated |-> FALSE,
                       entriesCreated |-> Len(sortedEntries),
                       budgetsCreated |-> budgetsCreated, settingsCreated |-> 1,
                       totalTransactions |-> Len(transactions) + budgetsCreated,
                       materializedDates |-> m.materialized,
                       warnings |-> <<>>],
           store |-> m.store]

\* migrateFromLegacyModel(store) with a store that is not the default store:
\* loadTransactions, the legacy loaders and saveTransactions are handed the
\* store, materializeUpTo(yesterday) is not and works on the default store.
migrateFromLegacyModelApart(s, defaultStore, now) ==
  LET existing == loadTransactions(s)
      settingsTx == [Tx(<<"tx-settings-initial", 0, 0>>, "SETTINGS_UPDATED", 0)
                       EXCEPT !.settingsPatch = loadLegacySettings(s).value]
      sortedEntries == SortByTimestamp(loadLegacyEntries(s))
      transactions == <<settingsTx>> \o LegacyEntryTxs(sortedEntries)
      saved == saveTransactions(transactions, s)
      today == formatDateISO(now)
      yesterday == addDays(today, -1)
      m == materializeUpTo(yesterday, defaultStore, now)
      replayResult == replay(Given(transactions), yesterday, saved)
      budgetsCreated == Cardinality(DOMAIN replayResult.dailyBudgets)
  IN IF Len(existing) > 0
     THEN [report |-> [alreadyMigrated |-> TRUE, entriesCreated |-> 0,
                       budgetsCreated |-> 0, settingsCreated |-> 0,
                       totalTransactions |-> Len(existing),
                       materializedDates |-> <<>>,
                       warnings |-> <<"Migration already completed.">>],
           store |-> s, defaultStore |-> defaultStore]
     ELSE [report |-> [alreadyMigrated |-> FALSE,
                       entriesCreated |-> Len(sortedEntries),
                       budgetsCreated |-> budgetsCreated, settingsCreated |-> 1,
                       totalTransactions |-> Len(transactions) + budgetsCreated,
                       materializedDates |-> m.materialized,
                       warnings |-> <<>>],
           store |-> saved, defaultStore |-> m.store]

\* for (const e of sorted) txs.push(makeEntryAddedTx(e))
RECURSIVE EntryTxs(_)
EntryTxs(sorted) ==
  IF sorted = <<>> THEN <<>>
  ELSE <<makeEntryAddedTx(Head(sorted))>> \o EntryTxs(Tail(sorted))

\* for (const date of Object.keys(stats)) if (date < todayISO) txs.push(...)
RECURSIVE PastBudgetTxs(_, _, _, _)
PastBudgetTxs(stats, date, todayISO, now) ==
  IF date \notin DOMAIN stats THEN <<>>
  ELSE (IF date < todayISO
        THEN <<makeDailyBudgetCreatedTx(date, stats[date].baseBudget,
                                        stats[date].rollover, now)>>
        ELSE <<>>)
       \o PastBudgetTxs(stats, date + 1, todayISO, now)

\* The list migrateExistingToTransactions builds: the settings event stamped
\* now(), the entry events in timestamp order, the budgets of the past dates.
MigrationSeed(s, now) ==
  LET settings == loadLegacySettings(s)
      entries == loadLegacyEntries(s)
      seed == IF settings.present
              THEN <<[Tx(<<"tx-settings-initial-", formatDateISO(now), 0>>,
                         "SETTINGS_UPDATED", now)
                        EXCEPT !.settingsPatch = settings.value]>>
              ELSE <<>>
      stats == calculateStats(settings.value, entries, NoDate)
      budgets == IF settings.present
                 THEN PastBudgetTxs(stats, settings.value.startDate,
                                    formatDateISO(now), now)
                 ELSE <<>>
  IN seed \o EntryTxs(SortByTimestamp(entries)) \o budgets

\* migrateExistingToTransactions without the `existing.length > 0` return.
migrateExistingToTransactions_NoGuard(s, now) ==
  saveTransactions(MigrationSeed(s, now), s)

\* migrateExistingToTransactions(store): the store afterwards.
migrateExistingToTransactions(s, now) ==
  LET existing == loadTransactions(s)
  IN IF Len(existing) > 0 THEN s ELSE saveTransactions(MigrationSeed(s, now), s)

\* ------------------------------------------------------------------- state
VARIABLES
  store,     \* the data store: the list under STORAGE_KEYS.TRANSACTIONS
  clock,     \* Date.now()
  writers    \* each caller of appendTransaction: its position, event and list

vars == <<store, clock, writers>>

\* What the callers hand in.
EntryIds == {1}
Patches == {[weekdayBudget |-> 300, startDate |-> 0], [weekdayBudget |-> 200]}
\* What the legacy keys SETTINGS and ENTRIES hold when a migration reads them.
\* The ledger never writes them, so a migration takes them as its input.
\* The lists: none; one entry; two entries stored newest first; two entries
\* that carry the same entry id.
LegacyEntries ==
  {<<>>,
   <<[id |-> 1, date |-> 0, amount |-> 100, timestamp |-> 1]>>,
   <<[id |-> 2, date |-> 0, amount |-> 100, timestamp |-> 1],
     [id |-> 1, date |-> 0, amount |-> 50, timestamp |-> 0]>>,
   <<[id |-> 1, date |-> 0, amount |-> 100, timestamp |-> 0],
     [id |-> 1, date |-> 0, amount |-> 50, timestamp |-> 1]>>}
\* The legacy lists that can exist at an instant: no entry is stamped later.
LegacyEntriesBy(now) ==
  {le \in LegacyEntries : \A i \in 1..Len(le) : le[i].timestamp <= now}
LegacySettingsValues ==
  {NoLegacySettings, MalformedSettings,
   LegacySettings([weekdayBudget |-> 300, startDate |-> 0])}
WithLegacy(s, ls, le) ==
  [TRANSACTIONS |-> s.TRANSACTIONS, SETTINGS |-> ls, ENTRIES |-> le]
Stored(s) == [TRANSACTIONS |-> s.TRANSACTIONS]

\* The callers of appendTransaction that share the store (the tabs of one
\* browser share localStorage) and where each of them stands in the call:
\* before it, between its load and its save, or after its save.
Writers == {1, 2}
NoTx == Tx(<<"none", 0, 0>>, "NONE", 0)
IdleWriter == [pc |-> "idle", tx |-> NoTx, txs |-> <<>>]

Init ==
  /\ store = [TRANSACTIONS |-> <<>>]
  /\ clock = 0
  /\ writers = [w \in Writers |-> IdleWriter]

\* Time passes.
Tick ==
  /\ clock < MaxTime
  /\ clock' = clock + 1
  /\ UNCHANGED <<store, writers>>

\* Room for one more user event, or a re-append of a known id.  The events
\* the materializer adds do not count: there is at most one per date.
MayAppend(tx) ==
  \/ Len(SelectSeq(store.TRANSACTIONS,
                    LAMBDA t : t.type # "DAILY_BUDGET_CREATED")) < MaxLog
  \/ tx.id \in Ids(store.TRANSACTIONS)

\* The entries the user can record now.  An entry carries the instant it was
\* made at, which need not be the latest instant in the log.
NewEntries ==
  {[id |-> id, date |-> formatDateISO(ts), amount |-> 100, timestamp |-> ts] :
     id \in EntryIds, ts \in 0..clock}

\* The user records a spend: appendTransaction(makeEntryAddedTx(entry)).
AddEntry ==
  \E entry \in NewEntries :
    /\ MayAppend(makeEntryAddedTx(entry))
    /\ store' = appendTransaction(makeEntryAddedTx(entry), store)
    /\ UNCHANGED <<clock, writers>>

\* The user saves settings: appendTransaction(makeSettingsUpdatedTx(patch)).
UpdateSettings ==
  \E patch \in Patches :
    LET tx == makeSettingsUpdatedTx(patch, randomUUID(store.TRANSACTIONS), clock)
    IN /\ MayAppend(tx)
       /\ store' = appendTransaction(tx, store)
       /\ UNCHANGED <<clock, writers>>

\* The user adjusts today's opening balance.
SetCustomRollover ==
  LET tx == makeCustomRolloverTx(formatDateISO(clock), 50,
                                 randomUUID(store.TRANSACTIONS), clock)
  IN /\ MayAppend(tx)
     /\ store' = appendTransaction(tx, store)
     /\ UNCHANGED <<clock, writers>>

\* The app asks for today's budget; past dates are the materializer's.
EnsureDailyBudgetForDate ==
  \E date \in {formatDateISO(clock)} :
    /\ store' = ensureDailyBudgetForDate(date, Omitted, store, clock).store
    /\ UNCHANGED <<clock, writers>>

MaterializeUpTo ==
  \E throughDate \in Days :
    /\ store' = materializeUpTo(throughDate, store, clock).store
    /\ UNCHANGED <<clock, writers>>

MigrateFromLegacyModel ==
  \E ls \in LegacySettingsValues, le \in LegacyEntriesBy(clock) :
    /\ store' = Stored(migrateFromLegacyModel(WithLegacy(store, ls, le), clock).store)
    /\ UNCHANGED <<clock, writers>>

MigrateExistingToTransactions ==
  \E ls \in LegacySettingsValues, le \in LegacyEntriesBy(clock) :
    /\ store' = Stored(migrateExistingToTransactions(WithLegacy(store, ls, le), clock))
    /\ UNCHANGED <<clock, writers>>

ClearTransactions ==
  /\ store' = clearTransactions(store)
  /\ UNCHANGED <<clock, writers>>

Next ==
  \/ Tick
  \/ AddEntry
  \/ UpdateSettings
  \/ SetCustomRollover
  \/ EnsureDailyBudgetForDate
  \/ MaterializeUpTo
  \/ MigrateFromLegacyModel
  \/ MigrateExistingToTransactions
  \/ ClearTransactions

Spec == Init /\ [][Next]_vars

\* The ledger in daily use, without the migrations.
NextLedger ==
  \/ Tick
  \/ AddEntry
  \/ UpdateSettings
  \/ EnsureDailyBudgetForDate
  \/ ClearTransactions
SpecLedger == Init /\ [][NextLedger]_vars

\* The first half of appendTransaction: the list parsed from the store and
\* the duplicate-id check; the call returns here when the id is known.
appendLoad(tx, s) == [pc |-> "loaded", tx |-> tx, txs |-> loadTransactions(s)]

\* The second half that reads the store again and adds to what it holds now.
appendSave_Reloads(writer, s) ==
  saveTransactions(SortByTimestamp(Append(loadTransactions(s), writer.tx)), s)

\* The second half of appendTransaction: push onto the list loaded before,
\* sort, and write the whole list back.
appendSave(writer, s) ==
  saveTransactions(SortByTimestamp(Append(writer.txs, writer.tx)), s)

\* The entry a writer records: its own entry id, stamped by now.
WriterEntries(w) ==
  {[id |-> w, date |-> formatDateISO(ts), amount |-> 100, timestamp |-> ts] :
     ts \in 0..clock}

\* Writer w enters appendTransaction and loads the log.
LoadForAppend(w) ==
  /\ writers[w].pc = "idle"
  /\ \E entry \in WriterEntries(w) :
       /\ makeEntryAddedTx(entry).id \notin Ids(loadTransactions(store))
       /\ writers' = [writers EXCEPT ![w] = appendLoad(makeEntryAddedTx(entry), store)]
  /\ UNCHANGED <<store, clock>>

\* Writer w pushes, sorts and saves the list it loaded.
SaveAfterAppend(w) ==
  /\ writers[w].pc = "loaded"
  /\ store' = appendSave(writers[w], store)
  /\ writers' = [writers EXCEPT ![w].pc = "done"]
  /\ UNCHANGED clock

\* Writer w is back from the call and may append again.
ReturnFromAppend(w) ==
  /\ writers[w].pc = "done"
  /\ writers' = [writers EXCEPT ![w] = IdleWriter]
  /\ UNCHANGED <<store, clock>>

\* Two writers on one store, each call in two steps.
NextWriters ==
  \/ Tick
  \/ \E w \in Writers : LoadForAppend(w)
  \/ \E w \in Writers : SaveAfterAppend(w)
  \/ \E w \in Writers : ReturnFromAppend(w)
SpecWriters == Init /\ [][NextWriters]_vars

\* The budgets of the day: settings edits, custom rollovers and the request
\* for today's budget, without entries and migrations.
NextRollover ==
  \/ Tick
  \/ UpdateSettings
  \/ SetCustomRollover
  \/ EnsureDailyBudgetForDate
  \/ ClearTransactions
SpecRollover == Init /\ [][NextRollover]_vars

\* The ledger between two resets: every operation but clearTransactions.
NextNoClear ==
  \/ Tick
  \/ AddEntry
  \/ UpdateSettings
  \/ SetCustomRollover
  \/ EnsureDailyBudgetForDate
  \/ MaterializeUpTo
  \/ MigrateFromLegacyModel
  \/ MigrateExistingToTransactions

SpecNoClear == Init /\ [][NextNoClear]_vars

\* ------------------------------------------------ the migration on its own
\* A legacy store is migrated at any instant of its first three days.  The
\* legacy list holds at most one entry, recorded for its own day or for an
\* earlier one (entry.date is the day the spend counts for, entry.timestamp
\* the instant it was recorded at).
HistoryLegacyEntries(now) ==
  {<<>>} \cup
  {<<[id |-> 1, date |-> dt[1], amount |-> dt[3], timestamp |-> dt[2]]>> :
     dt \in {x \in (0..1) \X (0..now) \X {50, 100} : x[1] <= formatDateISO(x[2])}}
HistoryLegacySettings ==
  {NoLegacySettings} \cup
  {LegacySettings([weekdayBudget |-> 300, startDate |-> d]) : d \in 0..1}

InitMigration ==
  /\ store = [TRANSACTIONS |-> <<>>]
  /\ clock \in 0..MaxMigrationTime
  /\ writers = [w \in Writers |-> IdleWriter]

MigrateLegacyHistory ==
  /\ store.TRANSACTIONS = <<>>
  /\ \E ls \in HistoryLegacySettings, le \in HistoryLegacyEntries(clock) :
       store' = Stored(migrateFromLegacyModel(WithLegacy(store, ls, le), clock).store)
  /\ UNCHANGED <<clock, writers>>

NextMigration ==
  \/ MigrateLegacyHistory
  \/ ClearTransactions

SpecMigration == InitMigration /\ [][NextMigration]_vars

\* ------------------------------------------------------------- properties
Log == store.TRANSACTIONS
today == formatDateISO(clock)
Range(txs) == {txs[i] : i \in 1..Len(txs)}
\* The transactions of store s1 that store s0 does not hold.
NewTxs(s1, s0) == Range(s1.TRANSACTIONS) \ Range(s0.TRANSACTIONS)
BudgetOf(tx) == [baseBudget |-> tx.baseBudget, rollover |-> tx.rollover]
DailyTxs(txs, date) ==
  {i \in 1..Len(txs) : txs[i].type = "DAILY_BUDGET_CREATED" /\ txs[i].date = date}
HasDaily(date) == DailyTxs(Log, date) # {}
FullReplay(s) == replay(Omitted, NoDate, s)
Derived(r) ==
  [settings |-> r.settings, entries |-> r.entries, dailyBudgets |-> r.dailyBudgets]

\* Transactions a caller may hand to appendTransaction again: an entry of a
\* known entry id made at any instant, a daily budget of any date.
ReAppendInputs ==
  {makeEntryAddedTx(e) : e \in NewEntries}
  \cup {makeDailyBudgetCreatedTx(d, b, 0, clock) : d \in Days, b \in {0, 300}}

\* C1: appending a transaction whose id the log already holds leaves the
\* persisted log exactly as it was, whatever payload or timestamp it carries.
C1_IdempotentAppend ==
  \A tx \in ReAppendInputs :
    tx.id \in Ids(Log) => appendTransaction(tx, store) = store

\* A transaction with a stored id and another payload is at hand.
C1_Witness ==
  \E tx \in ReAppendInputs : tx.id \in Ids(Log) /\ tx \notin Range(Log)

\* C2: the persisted log is in ascending timestamp order in every state.
C2_SortedAtRest ==
  \A i \in 1..(Len(Log) - 1) : Log[i].timestamp <= Log[i + 1].timestamp

\* Lists handed to replay explicitly.
ReplayLists ==
  {<<>>,
   <<makeSettingsUpdatedTx([weekdayBudget |-> 300, startDate |-> 0], 1, 0)>>,
   <<makeEntryAddedTx([id |-> 1, date |-> 0, amount |-> 100, timestamp |-> 1]),
     makeSettingsUpdatedTx([weekdayBudget |-> 200], 1, 0)>>}

\* C3: replay(E, cutoff) returns the same settings, entries and dailyBudgets
\* before and after any operation on the store or the clock.
C3_DeterministicReplay ==
  [][\A E \in ReplayLists, cutoff \in Days \cup {NoDate} :
       Derived(replay(Given(E), cutoff, store'))
         = Derived(replay(Given(E), cutoff, store))]_vars

\* A later settings edit or a further materializeUpTo call that changes the
\* store.  The first two conjuncts hold of every such step and are cheap to
\* evaluate; they only spare evaluating the actions on the other steps.
SettingsOrMaterializeStep ==
  /\ store' # store
  /\ \A tx \in NewTxs(store', store) :
       tx.type \in {"SETTINGS_UPDATED", "DAILY_BUDGET_CREATED"}
  /\ (UpdateSettings \/ MaterializeUpTo)

\* The date has been materialized: the log holds the materializer's event for it.
Materialized(date) == <<"tx-daily", date, 0>> \in Ids(Log)

\* C4: once a date before today is materialized, no later settings edit and
\* no later materialization changes the dailyBudgets value that a replay of
\* the full log yields for it.
C4_FrozenHistory ==
  [][\A d \in Days :
       (d < today /\ Materialized(d) /\ SettingsOrMaterializeStep) =>
         /\ d \in DOMAIN FullReplay(store').dailyBudgets
         /\ FullReplay(store').dailyBudgets[d] = FullReplay(store).dailyBudgets[d]]_vars

\* A past date frozen at base budget 300, a later settings edit with another
\* weekday budget in the log, and the replayed value still the frozen one.
C4_Witness ==
  \E i, j \in 1..Len(Log) :
    /\ i < j
    /\ Log[i].id = <<"tx-daily", Log[i].date, 0>>
    /\ Log[i].date < today
    /\ Log[i].baseBudget = 300
    /\ Log[j].type = "SETTINGS_UPDATED"
    /\ "weekdayBudget" \in DOMAIN Log[j].settingsPatch
    /\ Log[j].settingsPatch.weekdayBudget # 300
    /\ FullReplay(store).dailyBudgets[Log[i].date] = BudgetOf(Log[i])

\* The end-to-end scenario: Monday is the day of the epoch, Tuesday the next.
Monday == formatDateISO(0)
Tuesday == addDays(Monday, 1)
IsSettings300(tx) ==
  /\ tx.type = "SETTINGS_UPDATED"
  /\ tx.settingsPatch = [weekdayBudget |-> 300, startDate |-> Monday]
  /\ formatDateISO(tx.timestamp) = Monday
Settings200 ==
  makeSettingsUpdatedTx([weekdayBudget |-> 200], randomUUID(Log), clock)

\* C5: with SettingsUpdated{weekdayBudget: 300} stamped on Monday as the whole
\* log, materializeUpTo(Monday) on Monday materializes nothing; on Tuesday it
\* materializes Monday as {300, 0}; after a SettingsUpdated{weekdayBudget: 200}
\* stamped on Tuesday, ensureDailyBudgetForDate(Tuesday) yields {200, 300} and
\* Monday's value is still {300, 0}.
C5_EndToEnd ==
  (Len(Log) = 1 /\ IsSettings300(Log[1])) =>
    LET m == materializeUpTo(Monday, store, clock)
        edited == appendTransaction(Settings200, m.store)
        e == ensureDailyBudgetForDate(Tuesday, Omitted, edited, clock)
    IN /\ today = Monday => (m.materialized = <<>> /\ m.store = store)
       /\ today = Tuesday =>
            /\ m.materialized = <<Monday>>
            /\ Monday \in DOMAIN FullReplay(m.store).dailyBudgets
            /\ FullReplay(m.store).dailyBudgets[Monday]
                 = [baseBudget |-> 300, rollover |-> 0]
            /\ e.budget = [baseBudget |-> 200, rollover |-> 300]
            /\ FullReplay(e.store).dailyBudgets[Monday]
                 = [baseBudget |-> 300, rollover |-> 0]

\* C6: every DailyBudgetCreated event that materializeUpTo or a migration
\* adds is for a date strictly before today, whatever throughDate is.
OnlyPastBudgets(s1) ==
  \A tx \in NewTxs(s1, store) :
    tx.type = "DAILY_BUDGET_CREATED" => tx.date < today
C6_NeverFreezesToday ==
  /\ \A throughDate \in Days :
       OnlyPastBudgets(materializeUpTo(throughDate, store, clock).store)
  /\ \A ls \in LegacySettingsValues, le \in LegacyEntries :
       /\ OnlyPastBudgets(migrateFromLegacyModel(WithLegacy(store, ls, le), clock).store)
       /\ OnlyPastBudgets(migrateExistingToTransactions(WithLegacy(store, ls, le), clock))

\* materializeUpTo asked to go through today or beyond adds a budget.
C6_Witness ==
  \E throughDate \in Days :
    /\ throughDate >= today
    /\ \E tx \in NewTxs(materializeUpTo(throughDate, store, clock).store, store) :
         tx.type = "DAILY_BUDGET_CREATED"

HasCustomRollover(date) ==
  \E i \in 1..Len(Log) :
    Log[i].type = "CUSTOM_ROLLOVER_SET" /\ Log[i].date = date

\* C7: when the log holds a DailyBudgetCreated event for a date (and no
\* rollover adjustment of it), ensureDailyBudgetForDate returns exactly the
\* event's value and appends nothing.
C7_EnsureIsIdempotentRead ==
  \A d \in Days :
    \A i \in DailyTxs(Log, d) :
      ~HasCustomRollover(d) =>
        LET r == ensureDailyBudgetForDate(d, Omitted, store, clock)
        IN r.budget = BudgetOf(Log[i]) /\ r.store = store

\* C8: materializeUpTo returns exactly the dates it added an event for, and a
\* second call right after the first returns the empty list.
C8_ReturnsNewlyMaterialized ==
  \A throughDate \in Days :
    LET first == materializeUpTo(throughDate, store, clock)
        second == materializeUpTo(throughDate, first.store, clock)
    IN /\ Range(first.materialized)
            = {tx.date : tx \in NewTxs(first.store, store)}
       /\ second.materialized = <<>>

\* The past dates materializeUpTo(throughDate) goes over.
Eligible(throughDate) ==
  LET settings == FullReplay(store).settings
      start == IF settings.startDate # NoDate THEN settings.startDate ELSE today
  IN {d \in Days : start <= d /\ d <= throughDate /\ d < today}

\* C9: when every eligible past date of the range has its DailyBudgetCreated
\* event, materializeUpTo leaves the persisted log unchanged.
C9_OnlyFillsGaps ==
  \A throughDate \in Days :
    (\A d \in Eligible(throughDate) : HasDaily(d)) =>
      materializeUpTo(throughDate, store, clock).store = store

\* A range whose past dates all have their event, which materializeUpTo
\* goes over once more after a later settings edit.
C9_Witness ==
  \E throughDate \in Days :
    /\ Eligible(throughDate) # {}
    /\ \A d \in Eligible(throughDate) : HasDaily(d)
    /\ materializeUpTo(throughDate, store, clock).materialized # <<>>
    /\ Log[Len(Log)].type = "SETTINGS_UPDATED"

\* C10: the persisted log holds at most one DailyBudgetCreated event per date.
C10_OneBudgetPerDate ==
  \A d \in Days : Cardinality(DailyTxs(Log, d)) <= 1

\* A date that has its event and that ensureDailyBudgetForDate would build
\* the event for once more.
C10_Witness ==
  \E d \in Days :
    /\ HasDaily(d)
    /\ d \notin DOMAIN replay(Omitted, d, store).dailyBudgets

\* C11: after materializeUpTo(T) every date from the start date through T
\* that lies before today has its DailyBudgetCreated event in the persisted
\* log; with no start date, or a start date after T, the call adds nothing.
C11_CompleteOverRange ==
  \A throughDate \in Days :
    LET m == materializeUpTo(throughDate, store, clock)
        startDate == FullReplay(store).settings.startDate
    IN /\ \A d \in Eligible(throughDate) :
            DailyTxs(m.store.TRANSACTIONS, d) # {}
       /\ (startDate = NoDate \/ startDate > throughDate) =>
            (m.store = store /\ m.materialized = <<>>)

\* A store that holds no transaction.
FreshStore == [TRANSACTIONS |-> <<>>]

\* C12: for every explicitly supplied list E, the empty one included, and
\* every cutoff, replay(E, cutoff) yields the same derived state over the
\* current store as over a fresh store.
C12_NoHiddenInputs ==
  \A E \in ReplayLists, cutoff \in Days \cup {NoDate} :
    Derived(replay(Given(E), cutoff, store))
      = Derived(replay(Given(E), cutoff, FreshStore))

\* C13: while clearTransactions is not called, every event of the persisted
\* log is still in it, with the same content, after every step.
C13_AppendOnly ==
  [][Range(Log) \subseteq Range(store'.TRANSACTIONS)]_vars

\* A log written by a migration, with a budget the materializer added later,
\* to which an event of a stored id and another content can be handed.
C13_Witness ==
  /\ \E i \in 1..Len(Log) : Log[i].id[1] = "tx-settings-initial"
  /\ \E d \in Days : HasDaily(d)
  /\ \E tx \in ReAppendInputs : tx.id \in Ids(Log) /\ tx \notin Range(Log)

\* C14: no two events of the persisted log carry the same id.
C14_UniqueIds == Cardinality(Ids(Log)) = Len(Log)

\* The number of events of a kind in a list.
CountOf(txs, type) == Cardinality({i \in 1..Len(txs) : txs[i].type = type})

\* C15: a second migrateFromLegacyModel reports alreadyMigrated, leaves the
\* persisted log as the first call left it, and reports the totalTransactions
\* the first call reported.
C15_MigrationIdempotent ==
  \A ls \in LegacySettingsValues, le \in LegacyEntriesBy(clock) :
    LET first == migrateFromLegacyModel(WithLegacy(store, ls, le), clock)
        second == migrateFromLegacyModel(first.store, clock)
    IN /\ second.report.alreadyMigrated
       /\ second.store = first.store
       /\ second.report.totalTransactions = first.report.totalTransactions

\* C16: the report of a first migrateFromLegacyModel counts what the
\* persisted log holds afterwards: the entry events, the settings events,
\* the budget events (as many as materializedDates lists) and all events.
C16_ReportCounts ==
  Log = <<>> =>
    \A ls \in LegacySettingsValues, le \in LegacyEntriesBy(clock) :
      LET m == migrateFromLegacyModel(WithLegacy(store, ls, le), clock)
          txs == m.store.TRANSACTIONS
      IN /\ m.report.entriesCreated = CountOf(txs, "ENTRY_ADDED")
         /\ m.report.settingsCreated = CountOf(txs, "SETTINGS_UPDATED")
         /\ m.report.budgetsCreated = CountOf(txs, "DAILY_BUDGET_CREATED")
         /\ m.report.budgetsCreated = Len(m.report.materializedDates)
         /\ m.report.totalTransactions = Len(txs)

C18_MigratedIsTerminal ==
  [][isMigrated(store) => isMigrated(store')]_vars

\* A migrated log on which a later user operation has acted.
C18_Witness ==
  /\ isMigrated(store)
  /\ \E i, j \in 1..Len(Log) :
       /\ Log[i].id[1] \in {"tx-settings-initial", "tx-settings-initial-"}
       /\ Log[j].id[1] \in {"tx-settings", "tx-roll", "tx"}

\* The entry events of a list, in the list's order.
EntryEvents(txs) == SelectSeq(txs, LAMBDA t : t.type = "ENTRY_ADDED")

C20_RoundTrip ==
  Log = <<>> =>
    \A ls \in LegacySettingsValues, le \in LegacyEntriesBy(clock) :
      LET m == migrateFromLegacyModel(WithLegacy(store, ls, le), clock)
          r == FullReplay(Stored(m.store))
      IN /\ r.entries = SortByTimestamp(le)
         /\ DOMAIN r.settings = (DOMAIN DEFAULT_SETTINGS) \cup (DOMAIN ls.value)
         /\ \A k \in DOMAIN ls.value : r.settings[k] = ls.value[k]
         /\ \A k \in (DOMAIN DEFAULT_SETTINGS) \ (DOMAIN ls.value) :
              r.settings[k] = DEFAULT_SETTINGS[k]

\* The log a migration leaves of legacy settings and two legacy entries,
\* replayed.
C20_Witness ==
  /\ Log # <<>>
  /\ Log[1].id[1] = "tx-settings-initial"
  /\ FullReplay(store).settings.weekdayBudget = 300
  /\ Len(FullReplay(store).entries) = 2

\* C21: after migrateFromLegacyModel on an empty log with legacy settings,
\* every date from the legacy start date through yesterday has a
\* DailyBudgetCreated event whose value is what calculateStats yields for the
\* date from the full legacy settings and all legacy entries, and no date
\* from today on has one.
C21_LocksLegacyHistory ==
  Log = <<>> =>
    \A ls \in HistoryLegacySettings \ {NoLegacySettings},
       le \in HistoryLegacyEntries(clock) :
      LET txs == migrateFromLegacyModel(WithLegacy(store, ls, le), clock).store.TRANSACTIONS
          yesterday == addDays(today, -1)
          stats == calculateStats(ls.value, le, yesterday)
      IN /\ \A d \in ls.value.startDate..yesterday :
              \E i \in DailyTxs(txs, d) : BudgetOf(txs[i]) = stats[d]
         /\ \A i \in 1..Len(txs) :
              txs[i].type = "DAILY_BUDGET_CREATED" => txs[i].date < today

\* C22: when the legacy settings are malformed JSON, migrateFromLegacyModel
\* on an empty log still returns its report, still persists the events of
\* the legacy entries, and lists a warning for the failure in the report.
C22_MalformedLegacyIsWarned ==
  Log = <<>> =>
    \A le \in LegacyEntriesBy(clock) :
      LET m == migrateFromLegacyModel(WithLegacy(store, MalformedSettings, le), clock)
      IN /\ ~m.report.alreadyMigrated
         /\ m.report.entriesCreated = Len(le)
         /\ CountOf(m.store.TRANSACTIONS, "ENTRY_ADDED") = Len(le)
         /\ m.report.warnings # <<>>

\* C23: for every value stored under the log key (absent, empty, unparseable,
\* or parseable text that is not an event list) loadTransactions returns an
\* event sequence, the empty one unless the text holds a list, and replay,
\* isMigrated and appendTransaction built on it complete.
C23_ReadCorruptionNotFatal ==
  \A raw \in RawValues(Log) :
    /\ loadRaw(raw).kind = "list"
    /\ raw.kind # "list" => loadRaw(raw).list = <<>>
    /\ raw.kind = "list" => loadRaw(raw).list = Log
    /\ isMigratedCompletes(raw)
    /\ appendTransactionCompletes(raw)
    /\ replayCompletes(raw)

\* Transactions a caller may append: an entry or a settings edit made now.
AppendInputs ==
  {makeEntryAddedTx(e) : e \in NewEntries}
  \cup {makeSettingsUpdatedTx(p, randomUUID(Log), clock) : p \in Patches}

\* C24: on a store that rejects writes, saveTransactions and
\* appendTransaction return with the persisted log exactly as it was, and
\* ensureDailyBudgetForDate returns the budget it returns on a store that
\* accepts the write, again without a change to the log.
C24_WriteFailureSwallowed ==
  LET r == Rejecting(store)
  IN /\ \A txs \in ReplayLists : saveTransactions(txs, r) = r
     /\ \A tx \in AppendInputs : appendTransaction(tx, r) = r
     /\ \A d \in Days :
          LET e == ensureDailyBudgetForDate(d, Omitted, r, clock)
          IN /\ e.store = r
             /\ e.budget = ensureDailyBudgetForDate(d, Omitted, store, clock).budget

\* A log with settings and a date whose budget is computed from them and
\* would be written, and a transaction whose id the log does not hold.
C24_Witness ==
  /\ \E d \in Days :
       LET e == ensureDailyBudgetForDate(d, Omitted, store, clock)
       IN e.store # store /\ e.budget.baseBudget > 0
  /\ \E tx \in AppendInputs : tx.id \notin Ids(Log)

\* C25: after clearTransactions, whatever the log held, loadTransactions
\* returns the empty sequence, isMigrated is false, and replay from the store
\* returns the default settings, no entries and no daily budgets, for every
\* cutoff, as it does on a store that never held a transaction.
C25_ResetDiscardsDerived ==
  LET c == clearTransactions(store)
  IN /\ loadTransactions(c) = <<>>
     /\ ~isMigrated(c)
     /\ \A cutoff \in Days \cup {NoDate} :
          /\ Derived(replay(Omitted, cutoff, c))
               = [settings |-> DEFAULT_SETTINGS, entries |-> <<>>,
                  dailyBudgets |-> EmptyMap]
          /\ replay(Omitted, cutoff, c) = replay(Omitted, cutoff, FreshStore)

\* A log from which settings, an entry and a daily budget are derived.
C25_Witness ==
  /\ isMigrated(store)
  /\ FullReplay(store).settings # DEFAULT_SETTINGS
  /\ FullReplay(store).entries # <<>>
  /\ FullReplay(store).dailyBudgets # EmptyMap

\* The fold over the transactions of the log stamped on date D or earlier.
FoldThroughDate(D) ==
  LET txs == SelectSeq(SortByTimestamp(Log),
                       LAMBDA t : formatDateISO(t.timestamp) <= D)
  IN ReplayLoop(txs, 1, NoDate,
                [settings |-> DEFAULT_SETTINGS, entries |-> <<>>,
                 dailyBudgets |-> EmptyMap, transactions |-> txs])

\* C26: replay(E, D) folds every event stamped on calendar date D or earlier,
\* at any instant of D, and no event stamped on a later date.
C26_CutoffIncludesWholeDay ==
  \A D \in Days :
    Derived(replay(Omitted, D, store)) = Derived(FoldThroughDate(D))

\* The SettingsUpdated events of the log that carry the budget amount.
BudgetSettingsTxs ==
  {i \in 1..Len(Log) : /\ Log[i].type = "SETTINGS_UPDATED"
                       /\ "weekdayBudget" \in DOMAIN Log[i].settingsPatch}

\* C27: when the only SettingsUpdated event carrying the budget amount is
\* stamped during date D, with a start date not after D, and D has no budget
\* yet, ensureDailyBudgetForDate(D) returns that amount as baseBudget.
C27_EnsureRespectsSameDaySettings ==
  \A D \in Days, i \in BudgetSettingsTxs :
    (/\ BudgetSettingsTxs = {i}
     /\ formatDateISO(Log[i].timestamp) = D
     /\ FullReplay(store).settings.startDate \in 0..D
     /\ ~HasDaily(D))
    => ensureDailyBudgetForDate(D, Omitted, store, clock).budget.baseBudget
         = Log[i].settingsPatch.weekdayBudget

\* tx1 stands before tx2 in the list.
Precedes(txs, tx1, tx2) ==
  \E i, j \in 1..Len(txs) : i < j /\ txs[i] = tx1 /\ txs[j] = tx2

\* The settings events of the log that share a timestamp stand in the order
\* of their appends, which is the order of the ids randomUUID handed out.
TiesInAppendOrder ==
  \A i, j \in 1..Len(Log) :
    (/\ Log[i].type = "SETTINGS_UPDATED" /\ Log[j].type = "SETTINGS_UPDATED"
     /\ Log[i].timestamp = Log[j].timestamp
     /\ Log[i].id[2] < Log[j].id[2]) => i < j

\* C28: two settings events with distinct ids, both stamped now and
\* appended one after the other, stand in the persisted log in the order of
\* their appends, also after a further append of an event with another
\* timestamp, and replay folds them in that order, so that the amount of the
\* second one is the derived one; and in every state the events of the log
\* that share a timestamp stand in the order of their appends.
C28_StableTieBreak ==
  /\ TiesInAppendOrder
  /\ \A t \in {clock}, p1 \in Patches :
    \A p2 \in Patches \ {p1} :
    \A tx1 \in {makeSettingsUpdatedTx(p1, randomUUID(Log), t)} :
    \A s1 \in {appendTransaction(tx1, store)} :
    \A tx2 \in {makeSettingsUpdatedTx(p2, randomUUID(s1.TRANSACTIONS), t)} :
    \A s2 \in {appendTransaction(tx2, s1)} :
      /\ Precedes(s2.TRANSACTIONS, tx1, tx2)
      /\ \A r2 \in {FullReplay(s2)} :
           /\ Precedes(r2.transactions, tx1, tx2)
           /\ r2.settings.weekdayBudget = p2.weekdayBudget
      /\ \A t3 \in (0..clock) \ {t} :
           \A tx3 \in {makeSettingsUpdatedTx([weekdayBudget |-> 200],
                                              randomUUID(s2.TRANSACTIONS), t3)} :
           \A s3 \in {appendTransaction(tx3, s2)} :
             /\ Precedes(s3.TRANSACTIONS, tx1, tx2)
             /\ Precedes(FullReplay(s3).transactions, tx1, tx2)

\* The log holds two settings events of one timestamp, the one appended
\* first (the lower id) ahead of the other, and an event of another
\* timestamp appended after them.
C28_Witness ==
  \E i, j, k \in 1..Len(Log) :
    /\ i < j
    /\ Log[i].type = "SETTINGS_UPDATED" /\ Log[j].type = "SETTINGS_UPDATED"
    /\ Log[i].timestamp = Log[j].timestamp
    /\ Log[i].id[2] < Log[j].id[2]
    /\ Log[k].timestamp # Log[i].timestamp

\* Both events are in the log, in the order of their appends, and the
\* amount of the second is the derived one unless a later event sets it.
BothKept(s, tx1, tx2, t) ==
  /\ Len(s.TRANSACTIONS) = Len(Log) + 2
  /\ Precedes(s.TRANSACTIONS, tx1, tx2)
  /\ (\A k \in BudgetSettingsTxs : Log[k].timestamp <= t)
       => FullReplay(s).settings.weekdayBudget = tx2.settingsPatch.weekdayBudget

\* Two settings edits of one instant, built with the helper of migration.ts.
C29_KeptWithUUID ==
  \A t \in 0..clock, p1 \in Patches, p2 \in Patches :
    LET tx1 == makeSettingsUpdatedTx(p1, randomUUID(Log), t)
        s1 == appendTransaction(tx1, store)
        tx2 == makeSettingsUpdatedTx(p2, randomUUID(s1.TRANSACTIONS), t)
    IN BothKept(appendTransaction(tx2, s1), tx1, tx2, t)

\* Two settings edits of one instant, built with the helper of
\* transactionHelpers.ts.
C29_KeptWithClockId ==
  \A t \in 0..clock, p1 \in Patches, p2 \in Patches :
    LET tx1 == makeSettingsUpdatedTxAt(p1, t)
        tx2 == makeSettingsUpdatedTxAt(p2, t)
    IN p1 # p2 =>
         BothKept(appendTransaction(tx2, appendTransaction(tx1, store)), tx1, tx2, t)

\* C29: two SettingsUpdated events built by makeSettingsUpdatedTx at the same
\* clock instant and appended one after the other are both in the log, and
\* replay applies the patch appended second last; for either helper of that
\* name.
C29_SameInstantEditsKept ==
  C29_KeptWithUUID /\ C29_KeptWithClockId

\* The orderings of a set of indices, and a list rearranged by one.
RECURSIVE Orderings(_)
Orderings(S) ==
  IF S = {} THEN {<<>>}
  ELSE UNION {{<<x>> \o o : o \in Orderings(S \ {x})} : x \in S}
Rearranged(E, o) == [i \in 1..Len(E) |-> E[o[i]]]
DistinctTimestamps(E) ==
  \A i, j \in 1..Len(E) : i # j => E[i].timestamp # E[j].timestamp

\* C30: for every event sequence E with pairwise distinct timestamps, the
\* persisted log and the lists handed in explicitly, and every permutation P
\* of E, replay(P) returns the settings, entries and dailyBudgets of
\* replay(E), with and without a cutoff.
C30_ReplayOrderIndependent ==
  \A E \in {Log} \cup ReplayLists :
    DistinctTimestamps(E) =>
      \A o \in Orderings(1..Len(E)), cutoff \in Days \cup {NoDate} :
        Derived(replay(Given(Rearranged(E, o)), cutoff, store))
          = Derived(replay(Given(E), cutoff, store))

\* A log of pairwise distinct timestamps with two settings edits that set
\* the amount differently and a daily budget: its orderings fold differently
\* unless replay sorts.
C30_Witness ==
  /\ DistinctTimestamps(Log)
  /\ \E i, j, k \in 1..Len(Log) :
       /\ i # j
       /\ i \in BudgetSettingsTxs /\ j \in BudgetSettingsTxs
       /\ Log[i].settingsPatch.weekdayBudget # Log[j].settingsPatch.weekdayBudget
       /\ Log[k].type = "DAILY_BUDGET_CREATED"

\* The transactions replay folds: in timestamp order, up to the instant of
\* the cutoff.
FoldedTxs(txs, cutoff) ==
  SelectSeq(SortByTimestamp(txs),
            LAMBDA t : cutoff = NoDate \/ t.timestamp <= DateToTime(cutoff))

\* The positions of the folded SettingsUpdated events whose patch mentions key.
Mentions(folded, key) ==
  {i \in 1..Len(folded) : /\ folded[i].type = "SETTINGS_UPDATED"
                          /\ key \in DOMAIN folded[i].settingsPatch}

\* The largest member of a non-empty set of positions.
Latest(S) == CHOOSE i \in S : \A j \in S : j <= i

CustomRollovers == {50, 70}

BudgetLists(d, b, ro) ==
  {Log \o <<makeCustomRolloverTx(d, 50, randomUUID(Log), clock),
            makeDailyBudgetCreatedTx(d, b, ro, clock)>>,
   Log \o <<makeDailyBudgetCreatedTx(d, b, ro, clock),
            makeCustomRolloverTx(d, 50, randomUUID(Log), clock)>>,
   <<makeDailyBudgetCreatedTx(d, b, ro, 0)>> \o Log}

\* The positions of the folded events of a kind for date d.
BudgetEventsFor(folded, type, d) ==
  {i \in 1..Len(folded) : folded[i].type = type /\ folded[i].date = d}

\* C33: when the folded events hold a DailyBudgetCreated for date d, replay's
\* dailyBudgets[d] has the baseBudget of the latest one in timestamp order,
\* and its rollover unless a CustomRolloverSet for d is folded after it;
\* values set for d by earlier events, a CustomRolloverSet included, are
\* overwritten.
C33_LastBudgetWins ==
  \A d \in Days, b \in {0, 300}, ro \in {0, 70} :
    \A E \in BudgetLists(d, b, ro) :
    \A folded \in {FoldedTxs(E, NoDate)}, r \in {replay(Given(E), NoDate, FreshStore)} :
    \A created \in {BudgetEventsFor(folded, "DAILY_BUDGET_CREATED", d)} :
      /\ created # {}
      /\ \A last \in {Latest(created)} :
         \A rolls \in {{i \in BudgetEventsFor(folded, "CUSTOM_ROLLOVER_SET", d) :
                          i > last}} :
           /\ r.dailyBudgets[d].baseBudget = folded[last].baseBudget
           /\ r.dailyBudgets[d].rollover =
                (IF rolls = {} THEN folded[last].rollover
                 ELSE folded[Latest(rolls)].rollover)

\* The log holds a budget for a date with a base amount that a later
\* DailyBudgetCreated with other amounts overwrites.
C33_Witness ==
  \E d \in Days :
    /\ HasDaily(d)
    /\ FullReplay(store).dailyBudgets[d].baseBudget = 300
    /\ \E E \in BudgetLists(d, 0, 70) :
         replay(Given(E), NoDate, FreshStore).dailyBudgets[d]
           = [baseBudget |-> 0, rollover |-> 70]

\* The store without the SettingsUpdated events stamped on a day after d.
WithoutLaterSettings(d) ==
  [store EXCEPT !.TRANSACTIONS =
     SelectSeq(@, LAMBDA t : ~(/\ t.type = "SETTINGS_UPDATED"
                               /\ formatDateISO(t.timestamp) > d))]

\* C34: the budget ensureDailyBudgetForDate(d) computes, and the budget of
\* every DailyBudgetCreated event materializeUpTo appends for d, is the one
\* computed from the log without the SettingsUpdated events stamped on a day
\* after d.
C34_FrozenAsOfDate ==
  /\ \A d \in Days :
       ensureDailyBudgetForDate(d, Omitted, store, clock).budget
         = ensureDailyBudgetForDate(d, Omitted, WithoutLaterSettings(d), clock).budget
  /\ \A throughDate \in Days :
       \A tx \in NewTxs(materializeUpTo(throughDate, store, clock).store, store) :
         BudgetOf(tx)
           = ensureDailyBudgetForDate(tx.date, Omitted,
                                      WithoutLaterSettings(tx.date), clock).budget

\* The log holds a settings edit stamped on a day after d that changes the
\* amount, d has no budget yet, and materializeUpTo freezes d with the
\* amount in force on d.
C34_Witness ==
  \E d \in Days, i \in BudgetSettingsTxs :
    /\ formatDateISO(Log[i].timestamp) > d
    /\ ~HasDaily(d)
    /\ FullReplay(store).settings.weekdayBudget = 200
    /\ \E tx \in NewTxs(materializeUpTo(d, store, clock).store, store) :
         tx.date = d /\ tx.baseBudget = 300

ZeroBudget == [baseBudget |-> 0, rollover |-> 0]

\* Whether the calculator has no figures for date d on the persisted log.
NoFigures(d) ==
  \A r \in {replay(Omitted, d, store)} :
    /\ d \notin DOMAIN r.dailyBudgets
    /\ d \notin DOMAIN calculateStats(r.settings, r.entries, d)

\* When the calculator has no figures for date d and d has no budget,
\* ensureDailyBudgetForDate(d) returns {0, 0}, the log then holds the
\* DailyBudgetCreated event of d with {0, 0}, and a call for d right after,
\* or after a later settings edit, still returns {0, 0}.
FallbackCreated(d) ==
  (NoFigures(d) /\ ~HasDaily(d)) =>
    \A e \in {ensureDailyBudgetForDate(d, Omitted, store, clock)} :
      /\ e.budget = ZeroBudget
      /\ \E tx \in NewTxs(e.store, store) :
           /\ tx.type = "DAILY_BUDGET_CREATED" /\ tx.date = d
           /\ BudgetOf(tx) = ZeroBudget
      /\ ensureDailyBudgetForDate(d, Omitted, e.store, clock).budget = ZeroBudget
      /\ \A later \in clock..MaxTime, p \in Patches :
           \A edited \in {appendTransaction(
                             makeSettingsUpdatedTx(p, randomUUID(e.store.TRANSACTIONS),
                                                   later), e.store)} :
             /\ ensureDailyBudgetForDate(d, Omitted, edited, later).budget = ZeroBudget
             /\ ensureDailyBudgetForDate(d, Omitted, edited, later).store = edited

\* Date d has its DailyBudgetCreated event in the log, with {0, 0}.
ZeroFrozen(d) == \E i \in DailyTxs(Log, d) : BudgetOf(Log[i]) = ZeroBudget

\* C35, as stated: the zero fallback is appended and returned, and in every
\* state a date whose budget event holds {0, 0} is answered with {0, 0},
\* the log unchanged.
C35_ZeroFallbackFrozen ==
  \A d \in Days :
    /\ FallbackCreated(d)
    /\ ZeroFrozen(d) =>
         /\ ensureDailyBudgetForDate(d, Omitted, store, clock).budget = ZeroBudget
         /\ ensureDailyBudgetForDate(d, Omitted, store, clock).store = store

\* C35, amended: the zero fallback is appended and returned, and in every
\* state a date whose budget event holds {0, 0} is answered with baseBudget
\* 0, the log unchanged, and with rollover 0 as long as the log holds no
\* CustomRolloverSet for that date.
C35_ZeroFallbackUntilRollover ==
  \A d \in Days :
    /\ FallbackCreated(d)
    /\ ZeroFrozen(d) =>
         \A e \in {ensureDailyBudgetForDate(d, Omitted, store, clock)} :
           /\ e.budget.baseBudget = 0
           /\ e.store = store
           /\ BudgetEventsFor(Log, "CUSTOM_ROLLOVER_SET", d) = {} =>
                e.budget = ZeroBudget

\* The zero fallback of a date is in the log, and the settings derived from
\* the log by now would give the date an amount.
C35_Witness ==
  \E d \in Days :
    /\ ZeroFrozen(d)
    /\ FullReplay(store).settings.startDate \in 0..d
    /\ FullReplay(store).settings.weekdayBudget > 0

\* Writer w saves in this step.
Saves(w) == writers[w].pc = "loaded" /\ writers'[w].pc = "done"

\* C36: when a writer saves the list it loaded and nobody saved since its
\* load, its event and every event of the log are in the persisted log
\* afterwards; when another writer saved between its load and its save, the
\* events the log gained in between are not in the log afterwards: the
\* later save overwrites the earlier one.
C36_SafeOnlyWithoutInterleaving ==
  [][\A w \in Writers :
       Saves(w) =>
         /\ writers[w].tx \in Range(store'.TRANSACTIONS)
         /\ writers[w].txs = Log =>
              Range(Log) \subseteq Range(store'.TRANSACTIONS)
         /\ \A lost \in Range(Log) \ Range(writers[w].txs) :
              lost \notin Range(store'.TRANSACTIONS)]_vars

\* Both writers loaded before either saved and both have saved: the event
\* of the one that saved first is not in the log.
C36_Witness ==
  \E w \in Writers, v \in Writers :
    /\ writers[w].pc = "done" /\ writers[v].pc = "done"
    /\ writers[w].tx \notin Range(Log)
    /\ writers[v].tx \in Range(Log)

\* The Clock module: now() returns the mock time when one is set with
\* setMockTime, and Date.now() otherwise.
NoMockTime == 0 - 1
clockNow(mockTime) == IF mockTime # NoMockTime THEN mockTime ELSE clock

\* C37: with the Clock mocked to an instant, materializeUpTo takes the date
\* of that instant as today, so it freezes dates before it only, and stamps
\* the DailyBudgetCreated events it appends with that instant, whatever the
\* system time is.
C37_FollowsMockedClock ==
  \A mockTime \in Times, throughDate \in Days :
    \A tx \in NewTxs(materializeUpTo(throughDate, store, clock).store, store) :
      /\ tx.timestamp = clockNow(mockTime)
      /\ tx.date < formatDateISO(clockNow(mockTime))

\* C38: migrateFromLegacyModel(store) on an empty store that is not the
\* default store leaves the default store as it was, persists the
\* DailyBudgetCreated event of every date it reports as materialized in the
\* store it was given, and reports what it reports when the default store
\* holds no events.
C38_StaysInGivenStore ==
  \A ls \in LegacySettingsValues, le \in LegacyEntriesBy(clock) :
    \A r \in {migrateFromLegacyModelApart(WithLegacy(FreshStore, ls, le), store, clock)} :
      /\ r.defaultStore = store
      /\ \A d \in Range(r.report.materializedDates) :
           DailyTxs(r.store.TRANSACTIONS, d) # {}
      /\ r.report = migrateFromLegacyModelApart(WithLegacy(FreshStore, ls, le),
                                                FreshStore, clock).report

\* An event whose kind is none of the six known ones, stamped now.
UnknownKindTx == Tx(<<"tx-unknown", 0, 0>>, "GOAL_REACHED", clock)

\* C39: replay of the log with an event of an unknown kind added returns a
\* value with settings, entries and dailyBudgets, those of the remaining
\* events (the model has no raised error: the default branch has no throw).
C39_UnknownKindHandled ==
  \A r \in {replay(Given(Log \o <<UnknownKindTx>>), NoDate, store)} :
    /\ {"settings", "entries", "dailyBudgets"} \subseteq DOMAIN r
    /\ Derived(r) = Derived(FullReplay(store))

====
